---- MODULE Spec2Model ----
(***************************************************************************)
(* django-swingtime: the time slot grid (utils.create_timeslot_table), the *)
(* day query (OccasionManager.daily_occasions) and the creation of         *)
(* occasions from a recurrence rule (AbstractEvent.add_occasions).         *)
(*                                                                         *)
(* Instants are whole seconds counted from the midnight that starts day 0; *)
(* a timedelta is a number of seconds.  An optional argument is a sequence *)
(* of length 0 (absent, None) or 1; a keyword argument collected in        *)
(* **rrule_params also tells whether its key is there.                     *)
(***************************************************************************)
EXTENDS Integers, Sequences, FiniteSets, TLC

VARIABLES
    provided,        \* the names the project binds beside those of models.py
    events,          \* how many events the store holds
    db,              \* the stored occasions, in primary key order
    lastAdd,         \* what the last add_occasions call was given and did
    lastQuery,       \* what the last daily_occasions call was given and returned
    pc,              \* position inside create_timeslot_table
    dt,              \* create_timeslot_table's arguments ...
    items,
    start_time,
    end_time_delta,
    time_delta,
    min_columns,
    css_class_cycles,
    dtstart,         \* ... and its locals
    dtend,
    n,
    timeslots,
    pending,         \* the day of the QuerySet items is bound to, not yet run
    order,           \* sorted(items)
    idx,             \* how many entries of order the for loop has handled
    table            \* the value returned

gridArgs == <<dt, items, start_time, end_time_delta, time_delta, min_columns,
              css_class_cycles>>
gridLocals == <<dtstart, dtend, n, timeslots, pending, order, idx, table>>
store == <<provided, events, db, lastAdd, lastQuery>>
vars == <<provided, events, db, lastAdd, lastQuery, pc, dt, items, start_time,
          end_time_delta, time_delta, min_columns, css_class_cycles, dtstart,
          dtend, n, timeslots, pending, order, idx, table>>

---------------------------------------------------------------------------
(* datetime arithmetic *)

Minutes(m) == m * 60
Hours(h) == h * 3600
Time(h, m) == Hours(h) + Minutes(m)
\* datetime.combine(date, time), datetime(y, m, d)
Combine(day, t) == day * Hours(24) + t
DateOf(d) == d \div Hours(24)

Max2(a, b) == IF a >= b THEN a ELSE b
SetMax(S) == CHOOSE x \in S : \A y \in S : y <= x
SetMin(S) == CHOOSE x \in S : \A y \in S : x <= y

---------------------------------------------------------------------------
(* settings *)

TIMESLOT_INTERVAL == Minutes(15)
\* The setting is the 3-tuple (settings, name, datetime.time(9)): the call of
\* getattr is missing, so the value is no datetime.time.
TIMESLOT_START_TIME == [type |-> "tuple", time |-> Time(9, 0)]
TIMESLOT_END_TIME_DURATION == Hours(8)
TIMESLOT_MIN_COLUMNS == 4
DEFAULT_OCCASION_DURATION == Hours(1)

\* a datetime.time value passed by the caller
TimeValue(h, m) == [type |-> "time", time |-> Time(h, m)]

---------------------------------------------------------------------------
(* occasions and their order *)

Occasion(pk, event, s, e) ==
    [pk |-> pk, event |-> event, start_time |-> s, end_time |-> e]

\* AbstractOccasion.__cmp__: the start times alone are compared
Occasion_cmp(a, b) ==
    IF a.start_time < b.start_time THEN 0 - 1
    ELSE IF a.start_time > b.start_time THEN 1 ELSE 0

\* One step of a stable sort: x goes behind every entry that is not greater.
InsertSorted(x, s) ==
    LET k == Cardinality({i \in 1..Len(s) : Occasion_cmp(s[i], x) <= 0})
    IN  SubSeq(s, 1, k) \o <<x>> \o SubSeq(s, k + 1, Len(s))

RECURSIVE StableSort(_)
StableSort(s) ==
    IF s = <<>> THEN <<>>
    ELSE InsertSorted(s[Len(s)], StableSort(SubSeq(s, 1, Len(s) - 1)))

\* variant: the items are taken in the order given
Unsorted(s) == s

\* sorted(items): Python's sort is stable and uses __cmp__
sorted(s) == StableSort(s)

---------------------------------------------------------------------------
(* OccasionManager.daily_occasions *)

\* AbstractOccasion.Meta.ordering: a queryset yields its rows by start_time,
\* then end_time (and, among equal rows, by primary key).
MetaBefore(a, b) ==
    \/ a.start_time < b.start_time
    \/ a.start_time = b.start_time /\ a.end_time < b.end_time
    \/ a.start_time = b.start_time /\ a.end_time = b.end_time /\ a.pk <= b.pk

RECURSIVE OrderBy(_)
OrderBy(S) ==
    IF S = {} THEN <<>>
    ELSE LET first == CHOOSE a \in S : \A b \in S : MetaBefore(a, b)
         IN  <<first>> \o OrderBy(S \ {first})

DayStart(d) == Combine(DateOf(d), 0)
DayEnd(d) == DayStart(d) + Hours(23) + Minutes(59) + 59

\* variant: the second Q object with end_time__gt
DayFilterStrict(o, start, end) ==
    \/ o.start_time >= start /\ o.start_time <= end
    \/ o.end_time > start /\ o.end_time <= end
    \/ o.start_time < start /\ o.end_time > end

\* The three Q objects of the filter, or-ed.
DayFilter(o, start, end) ==
    \/ o.start_time >= start /\ o.start_time <= end
    \/ o.end_time >= start /\ o.end_time <= end
    \/ o.start_time < start /\ o.end_time > end

\* d: a datetime; event: <<>> or <<an event>>
daily_occasions(stored, d, event) ==
    LET start == DayStart(d)
        end == DayEnd(d)
        qs == {stored[i] : i \in {j \in 1..Len(stored) :
                                    DayFilter(stored[j], start, end)}}
    IN  OrderBy(IF event # <<>> THEN {o \in qs : o.event = event[1]} ELSE qs)

---------------------------------------------------------------------------
(* create_timeslot_table: the buckets and the placement of one occasion *)

\* BaseOccasionProxy.__init__: one proxy object per placed occasion
Proxy(item, col) == [occasion |-> item.pk, column |-> col]
\* the '' of an empty cell of the returned table
EmptyCell == [occasion |-> 0, column |-> 0]

\* d[k] = v on a dict
DictSet(d, k, v) == [x \in DOMAIN d \cup {k} |-> IF x = k THEN v ELSE d[x]]
EmptyDict == [x \in {} |-> 0]

\* variant: no clamping to the start of the grid
RowKeyUnclamped(item, gridStart) == item.start_time

\* rowkey of an item: its start, or the start of the grid when it began before
RowKey(item, gridStart) ==
    IF item.start_time > gridStart THEN item.start_time ELSE gridStart

\* variant: the column behind the last occupied one
NextColumn(timeslot) ==
    IF DOMAIN timeslot = {} THEN 0 ELSE SetMax(DOMAIN timeslot) + 1

\* the search "colkey = 0; while 1: if colkey not in timeslot ... colkey += 1"
OpenColumn(timeslot) ==
    CHOOSE c \in 0..Cardinality(DOMAIN timeslot) :
        /\ c \notin DOMAIN timeslot
        /\ \A b \in 0..(c - 1) : b \in DOMAIN timeslot

\* variant: "while current <= item.end_time"
RECURSIVE WalkInclusive(_, _, _, _, _, _)
WalkInclusive(slots, current, endTime, colkey, proxy, delta) ==
    IF current <= endTime /\ current \in DOMAIN slots
    THEN WalkInclusive(
             DictSet(slots, current, DictSet(slots[current], colkey, proxy)),
             current + delta, endTime, colkey, proxy, delta)
    ELSE slots

\* "while current < item.end_time": the proxy goes into column colkey of every
\* row reached, until a key is missing.  (Only entered with delta > 0: with
\* another interval a grid that has rows is never finished.)
RECURSIVE Walk(_, _, _, _, _, _)
Walk(slots, current, endTime, colkey, proxy, delta) ==
    IF current < endTime /\ current \in DOMAIN slots
    THEN Walk(DictSet(slots, current, DictSet(slots[current], colkey, proxy)),
              current + delta, endTime, colkey, proxy, delta)
    ELSE slots

\* the body of "for item in sorted(items)"
Place(slots, item, gridStart, delta) ==
    IF item.end_time <= gridStart THEN slots
    ELSE LET rowkey == RowKey(item, gridStart)
         IN  IF rowkey \notin DOMAIN slots THEN slots
             ELSE LET colkey == OpenColumn(slots[rowkey])
                      proxy == Proxy(item, colkey)
                      first == DictSet(slots, rowkey,
                                       DictSet(slots[rowkey], colkey, proxy))
                  IN  Walk(first, rowkey, item.end_time, colkey, proxy, delta)

---------------------------------------------------------------------------
(* create_timeslot_table: the returned table *)

\* variant: min_columns left out of the maximum
ColumnCountNoFloor(slots, minColumns) ==
    LET column_lens == {Cardinality(DOMAIN slots[k]) : k \in DOMAIN slots}
    IN  IF column_lens # {} THEN SetMax(column_lens) ELSE 0

ColumnCount(slots, minColumns) ==
    LET column_lens == {Cardinality(DOMAIN slots[k]) : k \in DOMAIN slots}
    IN  Max2(minColumns, IF column_lens # {} THEN SetMax(column_lens) ELSE 0)

RECURSIVE SortedKeys(_)
SortedKeys(S) ==
    IF S = {} THEN <<>> ELSE <<SetMin(S)>> \o SortedKeys(S \ {SetMin(S)})

\* cols[colkey] = proxy raises IndexError for a colkey beyond the row
IndexError(slots, minColumns) ==
    \E k \in DOMAIN slots : \E c \in DOMAIN slots[k] :
        c >= ColumnCount(slots, minColumns)

Table(slots, minColumns) ==
    LET keys == SortedKeys(DOMAIN slots)
        column_count == ColumnCount(slots, minColumns)
    IN  [r \in 1..Len(keys) |->
            [rowkey |-> keys[r],
             cols |-> [c \in 1..column_count |->
                          IF (c - 1) \in DOMAIN slots[keys[r]]
                          THEN slots[keys[r]][c - 1] ELSE EmptyCell]]]

---------------------------------------------------------------------------
(* bounds of the explored inputs *)

\* length of an explicit items sequence
MaxItems == 3
\* occasions in the store
MaxStored == 2
\* events create_event adds to the store
MaxEvents == 1
\* rows the bucket loop is followed for when the interval is not positive
MaxRewind == 3

GridDay == 1
Events == {1, 2}

\* start and end instants of the occasions handed to the grid
LayoutStarts == {Combine(GridDay, Time(8, 45)), Combine(GridDay, Time(9, 0)),
                 Combine(GridDay, Time(9, 15)), Combine(GridDay, Time(9, 30))}
LayoutEnds == {Combine(GridDay, Time(9, 0)), Combine(GridDay, Time(9, 30)),
               Combine(GridDay, Time(10, 0)), Combine(GridDay, Time(10, 45))}

\* ... and of the stored occasions a call without items reads
StoredStarts == {Combine(GridDay, Time(8, 45)), Combine(GridDay, Time(9, 15))}
StoredEnds == {Combine(GridDay, Time(9, 0)), Combine(GridDay, Time(9, 30))}

\* sequences of at most len occasions, the primary key being the position
OccasionLists(len, starts, ends) ==
    LET shapes == UNION {[1..k -> starts \X ends] : k \in 0..len}
    IN  {[i \in 1..Len(sh) |-> Occasion(i, 1, sh[i][1], sh[i][2])] :
            sh \in shapes}

\* datetime.now()
Nows == {Combine(GridDay, Time(12, 30))}

NoAdd == [active |-> FALSE, event |-> 0, start_time |-> 0, end_time |-> 0,
          freq |-> "DAILY", count |-> [present |-> FALSE, value |-> <<>>],
          until |-> [present |-> FALSE, value |-> <<>>], first |-> 0,
          created |-> 0, drawn |-> 0, raised |-> ""]
NoQuery == [asked |-> FALSE, dt |-> 0, event |-> <<>>, size |-> 0,
            result |-> <<>>]

---------------------------------------------------------------------------
(* create_timeslot_table, step by step *)

LocalsInit ==
    /\ dtstart = 0
    /\ dtend = 0
    /\ n = 0
    /\ timeslots = EmptyDict
    /\ pending = <<>>
    /\ order = <<>>
    /\ idx = 0
    /\ table = <<>>

\* models.py defines AbstractEvent, AbstractOccasion and create_event only:
\* swingtime.models.Occasion resolves when the project has bound that name
GridProjects == {{}, {"Occasion"}}
\* css_class_cycles: left out (the function css_class_cycler) or None
CssClassCycles == {"css_class_cycler", "None"}

\* calls that lay out an explicit sequence of occasions on a one hour grid
InitLayout ==
    /\ db = <<>>
    /\ dt = <<Combine(GridDay, Time(10, 0))>>
    /\ items \in OccasionLists(MaxItems, LayoutStarts, LayoutEnds)
    /\ start_time = TimeValue(9, 0)
    /\ end_time_delta = Hours(1)
    /\ time_delta \in {Minutes(15), Minutes(30)}
    /\ min_columns = 2
    /\ css_class_cycles = "None"

\* calls that leave items out, and grid options at their defaults or not
InitConfig ==
    /\ db \in OccasionLists(MaxStored, StoredStarts, StoredEnds)
    /\ dt \in {<<>>, <<Combine(GridDay, Time(10, 0))>>,
               <<Combine(GridDay + 1, Time(10, 0))>>}
    /\ items = <<>>
    /\ start_time \in {TIMESLOT_START_TIME, TimeValue(9, 0)}
    /\ end_time_delta \in {TIMESLOT_END_TIME_DURATION, 0 - Hours(1)}
    /\ time_delta \in {TIMESLOT_INTERVAL, 0, 0 - Minutes(15)}
    /\ min_columns \in {TIMESLOT_MIN_COLUMNS, 0}
    /\ css_class_cycles \in CssClassCycles

Init ==
    /\ pc = "call"
    /\ provided \in GridProjects
    /\ events = 1
    /\ lastAdd = NoAdd
    /\ lastQuery = NoQuery
    /\ LocalsInit
    /\ InitLayout \/ InitConfig

\* lines 175-187: the import of Occasion, dt, dtstart, dtend, items, the empty
\* dict, n.  Without items, items is bound to a QuerySet that is not run here.
Start ==
    /\ pc = "call"
    /\ IF "Occasion" \notin provided
       THEN \* from swingtime.models import Occasion raises ImportError
            /\ pc' = "ImportError"
            /\ UNCHANGED <<dt, dtstart, dtend, n, timeslots, pending>>
       ELSE \E now \in Nows :
            LET d == IF dt # <<>> THEN dt[1] ELSE now
            IN  /\ dt' = <<d>>
                /\ IF start_time.type # "time"
                   THEN \* datetime.combine raises TypeError
                        /\ pc' = "TypeError"
                        /\ UNCHANGED <<dtstart, dtend, n, timeslots, pending>>
                   ELSE /\ pc' = "slots"
                        /\ dtstart' = Combine(DateOf(d), start_time.time)
                        /\ dtend' = dtstart' + end_time_delta
                        /\ pending' = IF items = <<>> THEN <<d>> ELSE <<>>
                        /\ timeslots' = EmptyDict
                        /\ n' = dtstart'
    /\ UNCHANGED <<store, items, start_time, end_time_delta, time_delta,
                   min_columns, css_class_cycles, order, idx, table>>

\* one turn of "while n <= dtend"
BuildSlot ==
    /\ pc = "slots"
    /\ n <= dtend
    /\ time_delta <= 0 => n >= dtstart + MaxRewind * time_delta
    /\ timeslots' = DictSet(timeslots, n, EmptyDict)
    /\ n' = n + time_delta
    /\ UNCHANGED <<store, pc, gridArgs, dtstart, dtend, pending, order, idx,
                   table>>

\* the loop is left; sorted(items) is evaluated, which runs the QuerySet
SortItems ==
    /\ pc = "slots"
    /\ n > dtend
    /\ order' = sorted(IF pending # <<>>
                       THEN daily_occasions(db, pending[1], <<>>)
                       ELSE items)
    /\ idx' = 0
    /\ pc' = "fill"
    /\ UNCHANGED <<store, gridArgs, dtstart, dtend, n, timeslots, pending,
                   table>>

\* one turn of "for item in sorted(items)"
PlaceItem ==
    /\ pc = "fill"
    /\ idx < Len(order)
    /\ timeslots' = Place(timeslots, order[idx + 1], dtstart, time_delta)
    /\ idx' = idx + 1
    /\ UNCHANGED <<store, pc, gridArgs, dtstart, dtend, n, pending, order,
                   table>>

\* lines 234-258.  css_class_cycler() imports EventType from swingtime.models,
\* a name models.py does not define; with None no event_class is assigned.
BuildTable ==
    /\ pc = "fill"
    /\ idx = Len(order)
    /\ IF /\ css_class_cycles = "css_class_cycler"
          /\ ColumnCount(timeslots, min_columns) > 0
       THEN pc' = "ImportError" /\ table' = table
       ELSE IF IndexError(timeslots, min_columns)
            THEN pc' = "IndexError" /\ table' = table
            ELSE pc' = "done" /\ table' = Table(timeslots, min_columns)
    /\ UNCHANGED <<store, gridArgs, dtstart, dtend, n, timeslots, pending,
                   order, idx>>

Next == Start \/ BuildSlot \/ SortItems \/ PlaceItem \/ BuildTable

Spec == Init /\ [][Next]_vars

---------------------------------------------------------------------------
(* create_event, AbstractEvent.add_occasions and                           *)
(* OccasionManager.daily_occasions, called on the store                    *)

DayOpen == Combine(GridDay, 0)
DayClose == DayEnd(DayOpen)
\* instants around the two ends of the day asked for
StoreStarts == {DayOpen - 1, DayClose, DayClose + 1}
StoreEnds == {DayOpen - 1, DayOpen, DayClose + 1}

\* a keyword argument: the key left out, or there with None or with a value
Absent == [present |-> FALSE, value |-> <<>>]
Given(v) == [present |-> TRUE, value |-> v]
Counts == {Absent, Given(<<>>), Given(<<2>>)}
Untils == {Absent, Given(<<>>), Given(<<Combine(GridDay + 1, Time(12, 0))>>)}
Freqs == {Absent}

\* the reverse accessor of AbstractOccasion.event is named 'occasions':
\* event.occasion_set resolves when the project has bound that name
StoreProjects == {{}, {"occasion_set"}}

InitStore ==
    /\ pc = "idle"
    /\ provided \in StoreProjects
    /\ events = 0
    /\ db = <<>>
    /\ lastAdd = NoAdd
    /\ lastQuery = NoQuery
    /\ dt = <<>>
    /\ items = <<>>
    /\ start_time = TIMESLOT_START_TIME
    /\ end_time_delta = TIMESLOT_END_TIME_DURATION
    /\ time_delta = TIMESLOT_INTERVAL
    /\ min_columns = TIMESLOT_MIN_COLUMNS
    /\ css_class_cycles = "css_class_cycler"
    /\ LocalsInit

\* rrule_params.setdefault('freq', rrule.DAILY)
FreqOf(freq) == IF ~freq.present THEN "DAILY" ELSE freq.value[1]
\* dateutil: the distance of two consecutive occurrences (interval is 1)
Period(freq) == IF freq = "WEEKLY" THEN Hours(24) * 7 ELSE Hours(24)

\* "if 'count' not in rrule_params and 'until' not in rrule_params"
SingleOccasion(count, until) == ~count.present /\ ~until.present

\* the occurrence rrule.rrule yields after `drawn` others, if there is one;
\* count=None and until=None bound nothing
Occurrence(a) == a.start_time + a.drawn * Period(a.freq)
HasOccurrence(a) ==
    /\ a.count.value # <<>> => a.drawn < a.count.value[1]
    /\ a.until.value # <<>> => Occurrence(a) <= a.until.value[1]

\* self.occasion_set
HasOccasionSet == "occasion_set" \in provided

\* add_occasions up to the first turn of its loop: the store and the record of
\* the call it leaves
add_occasions(event, s, e, freq, count, until) ==
    LET call == [active |-> ~SingleOccasion(count, until), event |-> event,
                 start_time |-> s, end_time |-> e, freq |-> FreqOf(freq),
                 count |-> count, until |-> until, first |-> Len(db) + 1,
                 created |-> 0, drawn |-> 0, raised |-> ""]
    IN  IF ~SingleOccasion(count, until)
        THEN [db |-> db, call |-> call]
        ELSE IF HasOccasionSet
             THEN [db |-> Append(db, Occasion(Len(db) + 1, event, s, e)),
                   call |-> [call EXCEPT !.created = 1]]
             ELSE [db |-> db,
                   call |-> [call EXCEPT !.raised = "AttributeError"]]

\* event.add_occasions(s, e, **rrule_params) on an event of the store
AddOccasions(event, s, e, freq, count, until) ==
    /\ pc = "idle"
    /\ ~lastAdd.active
    /\ Len(db) < MaxStored
    /\ event \in 1..events
    /\ LET out == add_occasions(event, s, e, freq, count, until)
       IN  db' = out.db /\ lastAdd' = out.call
    /\ UNCHANGED <<provided, events, lastQuery, pc, gridArgs, gridLocals>>

\* now.replace(minute=0, second=0, microsecond=0)
HourOf(now) == now - (now % Hours(1))

\* create_event(title, description, start_time, end_time, note, **rrule_params)
\* up to the first turn of the loop of add_occasions.  AbstractEvent has no
\* attribute notes: a note raises AttributeError once the event is stored.
CreateEvent(start, end, note, freq, count, until) ==
    /\ pc = "idle"
    /\ ~lastAdd.active
    /\ Len(db) < MaxStored
    /\ events < MaxEvents
    /\ events' = events + 1
    /\ IF note # <<>>
       THEN /\ db' = db
            /\ lastAdd' = [NoAdd EXCEPT !.event = events + 1,
                                        !.raised = "AttributeError"]
       ELSE \E now \in Nows :
            LET s == IF start # <<>> THEN start[1] ELSE HourOf(now)
                e == IF end # <<>> THEN end[1]
                     ELSE s + DEFAULT_OCCASION_DURATION
                out == add_occasions(events + 1, s, e, freq, count, until)
            IN  db' = out.db /\ lastAdd' = out.call
    /\ UNCHANGED <<provided, lastQuery, pc, gridArgs, gridLocals>>

\* one turn of "for ev in rrule.rrule(dtstart=start_time, **rrule_params)"
AddNext ==
    /\ lastAdd.active
    /\ HasOccurrence(lastAdd)
    /\ Len(db) < MaxStored
    /\ LET ev == Occurrence(lastAdd)
           delta == lastAdd.end_time - lastAdd.start_time
       IN  IF HasOccasionSet
           THEN /\ db' = Append(db, Occasion(Len(db) + 1, lastAdd.event, ev,
                                             ev + delta))
                /\ lastAdd' = [lastAdd EXCEPT !.created = @ + 1,
                                              !.drawn = @ + 1]
           ELSE /\ db' = db
                /\ lastAdd' = [lastAdd EXCEPT !.active = FALSE,
                                              !.drawn = @ + 1,
                                              !.raised = "AttributeError"]
    /\ UNCHANGED <<provided, events, lastQuery, pc, gridArgs, gridLocals>>

\* the generator is exhausted: add_occasions returns
AddReturn ==
    /\ lastAdd.active
    /\ ~HasOccurrence(lastAdd)
    /\ lastAdd' = [lastAdd EXCEPT !.active = FALSE]
    /\ UNCHANGED <<provided, events, db, lastQuery, pc, gridArgs, gridLocals>>

\* Occasion.objects.daily_occasions(dt, event)
DailyOccasions(d, event) ==
    /\ pc = "idle"
    /\ ~lastAdd.active
    /\ \E now \in Nows :
        LET day == IF d # <<>> THEN d[1] ELSE now
            qs == daily_occasions(db, day, event)
        IN  lastQuery' = [asked |-> TRUE, dt |-> day, event |-> event,
                          size |-> Len(db),
                          result |-> [i \in 1..Len(qs) |-> qs[i].pk]]
    /\ UNCHANGED <<provided, events, db, lastAdd, pc, gridArgs, gridLocals>>

NextStore ==
    \/ \E start \in {<<>>, <<DayOpen - 1>>}, end \in {<<>>, <<DayOpen>>},
          note \in {<<>>, <<"note">>}, freq \in Freqs,
          count \in Counts, until \in Untils :
            CreateEvent(start, end, note, freq, count, until)
    \/ \E event \in Events, s \in StoreStarts, e \in StoreEnds,
          freq \in Freqs, count \in Counts, until \in Untils :
            AddOccasions(event, s, e, freq, count, until)
    \/ AddNext
    \/ AddReturn
    \/ \E d \in {<<>>, <<Combine(GridDay + 1, Time(10, 0))>>},
          event \in {<<>>} \cup {<<ev>> : ev \in Events} :
            DailyOccasions(d, event)

SpecStore == InitStore /\ [][NextStore]_vars

---------------------------------------------------------------------------
(* what the claims speak of *)

Filling == pc \in {"fill", "done"}
\* the occasions the for loop has handled so far
Handled == {order[i] : i \in 1..idx}
Cells(slots, pk) ==
    {kc \in UNION {{<<k, c>> : c \in DOMAIN slots[k]} : k \in DOMAIN slots} :
        slots[kc[1]][kc[2]].occasion = pk}
RowsOf(pk) == {kc[1] : kc \in Cells(timeslots, pk)}
ColumnsOf(pk) == {kc[2] : kc \in Cells(timeslots, pk)}
IsPlaced(item) == Cells(timeslots, item.pk) # {}
\* the slot keys that stepping by time_delta from key r reaches before endTime,
\* as long as each key stepped on is a key of the grid
SteppedKeys(r, endTime) ==
    {r + j * time_delta : j \in {i \in 1..Cardinality(DOMAIN timeslots) :
        /\ r + i * time_delta < endTime
        /\ \A h \in 1..i : r + h * time_delta \in DOMAIN timeslots}}
At(h, m) == Combine(GridDay, Time(h, m))

\* C1 as stated: a placed occasion whose end_time is a slot key occupies the
\* row of that key too, in its column.
C1_EndRowOccupied ==
    Filling =>
        \A item \in Handled :
            (IsPlaced(item) /\ item.end_time \in DOMAIN timeslots)
                => \E c \in ColumnsOf(item.pk) :
                       <<item.end_time, c>> \in Cells(timeslots, item.pk)

\* C1 amended: a placed occasion whose end_time is a slot key other than its
\* own rowKey does not occupy the row of that key; the last row it occupies is
\* the slot key before end_time.
C1_EndRowExcluded ==
    Filling =>
        \A item \in Handled :
            (/\ IsPlaced(item)
             /\ item.end_time \in DOMAIN timeslots
             /\ item.end_time # Max2(item.start_time, dtstart))
                => /\ item.end_time \notin RowsOf(item.pk)
                   /\ item.end_time > Max2(item.start_time, dtstart)
                        => SetMax(RowsOf(item.pk)) = item.end_time - time_delta

\* slots 09:00..10:00 every 15 minutes: [09:15, 10:00] lies in the rows 09:15,
\* 09:30 and 09:45
C1_Witness ==
    /\ pc = "done"
    /\ time_delta = Minutes(15)
    /\ \E item \in Handled :
        /\ item.start_time = At(9, 15)
        /\ item.end_time = At(10, 0)
        /\ RowsOf(item.pk) = {At(9, 15), At(9, 30), At(9, 45)}
        /\ At(10, 0) \in DOMAIN timeslots

OccupiedIn(row) == Cardinality({c \in 1..Len(row.cols) : row.cols[c] # EmptyCell})

\* C3: every row of the returned table has W cells, W the larger of min_columns
\* and the largest number of occupied cells of a row; no proxy falls beyond
\* the row (no IndexError); without occasions every row is min_columns empty
\* cells.
C3_RowWidth ==
    /\ pc # "IndexError"
    /\ pc = "done" =>
        LET used == {OccupiedIn(table[r]) : r \in 1..Len(table)}
            W == Max2(min_columns, IF used = {} THEN 0 ELSE SetMax(used))
        IN  /\ \A r \in 1..Len(table) : Len(table[r].cols) = W
            /\ W >= min_columns
            /\ order = <<>> =>
                 \A r \in 1..Len(table) :
                    table[r].cols = [c \in 1..min_columns |-> EmptyCell]

\* a table wider than min_columns, and one of min_columns columns with
\* occupied cells
C3_Witness ==
    /\ pc = "done"
    /\ Len(table) > 0
    /\ Len(table[1].cols) = 3
    /\ min_columns = 2
    /\ \E r \in 1..Len(table) : OccupiedIn(table[r]) = 1

\* C7: an occasion that ended by gridStart or whose rowKey is no slot key has no
\* cell; any other one lies, with one proxy and in one column, in the row
\* rowKey and in the slot keys before end_time reached by stepping from it,
\* and nowhere else.
C7_Span ==
    Filling =>
        \A item \in Handled :
            LET rowKey == Max2(item.start_time, dtstart)
            IN  IF item.end_time <= dtstart \/ rowKey \notin DOMAIN timeslots
                THEN Cells(timeslots, item.pk) = {}
                ELSE \E c \in 0..Len(order) :
                        /\ RowsOf(item.pk) =
                             {rowKey} \cup SteppedKeys(rowKey, item.end_time)
                        /\ ColumnsOf(item.pk) = {c}
                        /\ \A k \in RowsOf(item.pk) :
                             timeslots[k][c] = [occasion |-> item.pk,
                                                column |-> c]

\* one call with an occasion dropped for its end, one dropped for its start
\* between two keys, one clamped to the first row and one cut at the last row
C7_Witness ==
    /\ pc = "done"
    /\ time_delta = Minutes(30)
    /\ \E a \in Handled, b \in Handled, c \in Handled :
        /\ a.start_time = At(9, 15) /\ ~IsPlaced(a)
        /\ b.start_time = At(8, 45) /\ b.end_time = At(10, 45)
        /\ RowsOf(b.pk) = {At(9, 0), At(9, 30), At(10, 0)}
        /\ c.end_time = At(9, 0) /\ c.start_time = At(8, 45) /\ ~IsPlaced(c)

\* C8: the column given to an occasion is the lowest one free in the row rowKey
\* when the occasion is handled; every lower one holds an occasion handled
\* before.
C8_LowestColumn ==
    [][(pc = "fill" /\ idx < Len(order)) =>
         LET item == order[idx + 1]
             rowKey == Max2(item.start_time, dtstart)
         IN  \A kc \in Cells(timeslots', item.pk) :
                /\ kc[2] \notin DOMAIN timeslots[rowKey]
                /\ \A b \in 0..(kc[2] - 1) :
                      /\ b \in DOMAIN timeslots[rowKey]
                      /\ timeslots[rowKey][b].occasion
                             \in {h.pk : h \in Handled}]_vars

\* an occasion in column 0 of a row whose column 1 was taken before it
C8_Witness ==
    /\ pc = "done"
    /\ \E i \in 1..Len(order), j \in 1..Len(order) :
        /\ i < j
        /\ ColumnsOf(order[i].pk) = {1}
        /\ ColumnsOf(order[j].pk) = {0}
        /\ RowsOf(order[i].pk) \cap RowsOf(order[j].pk) # {}

\* C9 as stated: of two placed occasions with one start_time, the one that
\* ends first has the lower column, whatever the order of the input.
C9_TieByEnd ==
    pc = "done" =>
        \A a \in Handled, b \in Handled :
            (/\ IsPlaced(a) /\ IsPlaced(b)
             /\ a.start_time = b.start_time
             /\ a.end_time < b.end_time)
                => SetMax(ColumnsOf(a.pk)) < SetMax(ColumnsOf(b.pk))

\* C10: with a positive time_delta no step of create_timeslot_table removes or
\* replaces the proxy a cell holds.
C10_NoTrample ==
    [][time_delta > 0 =>
         \A k \in DOMAIN timeslots :
            /\ k \in DOMAIN timeslots'
            /\ \A c \in DOMAIN timeslots[k] :
                  /\ c \in DOMAIN timeslots'[k]
                  /\ timeslots'[k][c] = timeslots[k][c]]_vars

\* three occasions, the last in a column left of an earlier one whose rows it
\* walks along
C10_Witness ==
    /\ pc = "done"
    /\ Len(order) = 3
    /\ \A i \in 1..3 : IsPlaced(order[i])
    /\ ColumnsOf(order[2].pk) = {1}
    /\ ColumnsOf(order[3].pk) = {0}
    /\ Cardinality(RowsOf(order[3].pk) \cap RowsOf(order[2].pk)) >= 2

\* C5 as stated: with a time_delta that is not positive no row is built.
C5_NoRowBuilt == time_delta <= 0 => DOMAIN timeslots = {}

AllDefaults ==
    /\ start_time = TIMESLOT_START_TIME
    /\ end_time_delta = TIMESLOT_END_TIME_DURATION
    /\ time_delta = TIMESLOT_INTERVAL
    /\ min_columns = TIMESLOT_MIN_COLUMNS
    /\ css_class_cycles = "css_class_cycler"

\* C6 as stated: a call that overrides no grid option returns 33 rows, the
\* first at 09:00 of the day.
C6_DefaultGrid ==
    (AllDefaults /\ pc \notin {"call", "slots", "fill"}) =>
        /\ pc = "done"
        /\ Len(table) = 33
        /\ table[1].rowkey = Combine(DateOf(dt[1]), Time(9, 0))

Returned(pk) == \E i \in 1..Len(lastQuery.result) : lastQuery.result[i] = pk
\* the occasion starts by the end of the day asked for and ends at or after
\* its 00:00:00
MeetsDay(o) ==
    LET windowStart == Combine(DateOf(lastQuery.dt), Time(0, 0))
        windowEnd == Combine(DateOf(lastQuery.dt), Time(23, 59) + 59)
    IN  o.start_time <= windowEnd /\ o.end_time >= windowStart

\* C2 as stated: daily_occasions(dt) returns an occasion if and only if it
\* starts by the end of the day and ends at or after its start, for every
\* stored occasion.
C2_Overlap ==
    (lastQuery.asked /\ lastQuery.event = <<>>) =>
        \A pk \in 1..lastQuery.size : Returned(pk) <=> MeetsDay(db[pk])

\* C2 amended: the same, for every stored occasion that does not end before it
\* starts.
C2_OverlapOfIntervals ==
    (lastQuery.asked /\ lastQuery.event = <<>>) =>
        \A pk \in 1..lastQuery.size :
            db[pk].start_time <= db[pk].end_time
                => (Returned(pk) <=> MeetsDay(db[pk]))

\* both boundary cases returned by one query, and an occasion left out
C2_Witness ==
    /\ lastQuery.asked
    /\ lastQuery.event = <<>>
    /\ lastQuery.size = 2
    /\ lastQuery.dt = Combine(GridDay, Time(12, 30))
    /\ \E a \in 1..2, b \in 1..2 :
        /\ Returned(a) /\ Returned(b)
        /\ db[a].start_time < DayOpen /\ db[a].end_time = DayOpen
        /\ db[b].start_time = DayClose /\ db[b].end_time > DayClose

\* C4 as stated: a call of add_occasions whose rule has neither a count nor an
\* until has returned, has created the one occasion (start_time, end_time)
\* and has drawn nothing from the recurrence generator.
C4_SingleOccasion ==
    (/\ lastAdd.first > 0
     /\ lastAdd.count.value = <<>>
     /\ lastAdd.until.value = <<>>) =>
        /\ ~lastAdd.active
        /\ lastAdd.raised = ""
        /\ lastAdd.drawn = 0
        /\ lastAdd.created = 1
        /\ Len(db) = lastAdd.first
        /\ db[lastAdd.first] = Occasion(lastAdd.first, lastAdd.event,
                                        lastAdd.start_time, lastAdd.end_time)

====
